---- MODULE Spec2Model ----
(***************************************************************************)
(* Chat relay of chatServerApp/consumers.py: one ChatConsumer instance per *)
(* WebSocket connection, a channel layer holding the groups and one        *)
(* mailbox per channel.  Every handler of the consumer (connect, receive,  *)
(* chat_message, disconnect) is one action; the channel-layer calls the    *)
(* handlers make (group_add, group_discard, group_send) are operators.     *)
(***************************************************************************)
EXTENDS Integers, Sequences, FiniteSets, TLC

\* ------------------------------------------------------------------ bounds
\* NumConns: the connections that may arrive.  MaxInputs: the events the
\* clients may cause in one behaviour (connection attempts, inbound frames,
\* closes); the handlers that answer them are not bounded.
NumConns == 2
MaxInputs == 4

Conns == 1..NumConns

\* --------------------------------------------------------- program constants
\* "limited to a maximum length of 100 in the default backend"
MaxGroupNameLen == 100

\* "Group names may only contain alphanumerics, hyphens, underscores, or periods"
GroupNameChars ==
    { "a","b","c","d","e","f","g","h","i","j","k","l","m",
      "n","o","p","q","r","s","t","u","v","w","x","y","z",
      "A","B","C","D","E","F","G","H","I","J","K","L","M",
      "N","O","P","Q","R","S","T","U","V","W","X","Y","Z",
      "0","1","2","3","4","5","6","7","8","9","-","_","." }

\* f"chat_{...}": the fixed prefix of every group name
ChatPrefix == <<"c","h","a","t","_">>

\* ------------------------------------------------------------------ inputs
\* Room identifiers are strings, modelled as sequences of characters.
RoomLobby == <<"l","o","b","b","y">>
RoomDen   == <<"d","e","n">>
RoomSpace == <<"a"," ","b">>
\* the shortest room identifier whose group name is too long
RoomLong  == [i \in 1..(MaxGroupNameLen - Len(ChatPrefix) + 1) |-> "x"]

RoomIds == {RoomLobby, RoomDen, RoomSpace, RoomLong}

\* scope["url_route"]["kwargs"]: the keyword arguments of the matched route,
\* a set of <<key, value>> pairs.
Scopes == {[kwargs |-> {<<"room_name", r>>}] : r \in RoomIds}

\* An attribute of the consumer that no handler has assigned yet.
Unset == << >>

\* Wire text is a sequence of JSON tokens.
Tok(t, v) == [t |-> t, v |-> v]
Ws == Tok("ws", " ")
ScalarKinds == {"str", "num", "null"}

TxtHi      == <<Tok("punct","{"), Tok("str","message"), Tok("punct",":"), Tok("str","hi"), Tok("punct","}")>>
TxtNum     == <<Tok("punct","{"), Tok("str","message"), Tok("punct",":"), Tok("num","5"), Tok("punct","}")>>
TxtNoField == <<Tok("punct","{"), Tok("str","text"), Tok("punct",":"), Tok("str","hi"), Tok("punct","}")>>
TxtList    == <<Tok("punct","["), Tok("str","hi"), Tok("punct","]")>>
TxtJunk    == <<Tok("punct","{"), Tok("str","message"), Tok("punct",":")>>

\* a chat line as the page sends it, a number as message, no message field,
\* an array, a text cut short
Frames == {TxtHi, TxtNum, TxtNoField, TxtList, TxtJunk}

\* ------------------------------------------------------------ json module
PyVal(py, v, items) == [py |-> py, v |-> v, items |-> items]
PyNone == PyVal("NoneType", "", << >>)
Result(err, val) == [err |-> err, val |-> val]

ScalarOf(tok) ==
    IF tok.t = "null" THEN PyNone ELSE PyVal(tok.t, tok.v, << >>)

\* k : v (, k : v)*  between the braces of a flat object
IsMembers(inner) ==
    /\ Len(inner) % 4 = 3
    /\ \A i \in 1..Len(inner) :
         CASE i % 4 = 1 -> inner[i].t = "str"
           [] i % 4 = 2 -> inner[i] = Tok("punct", ":")
           [] i % 4 = 3 -> inner[i].t \in ScalarKinds
           [] OTHER     -> inner[i] = Tok("punct", ",")

\* v (, v)*  between the brackets of a flat array
IsElements(inner) ==
    /\ Len(inner) % 2 = 1
    /\ \A i \in 1..Len(inner) :
         IF i % 2 = 1 THEN inner[i].t \in ScalarKinds
                      ELSE inner[i] = Tok("punct", ",")

json_loads(text) ==
    LET toks  == SelectSeq(text, LAMBDA k : k.t # "ws")
        n     == Len(toks)
        inner == SubSeq(toks, 2, n - 1)
    IN  IF n = 1 /\ toks[1].t \in ScalarKinds
          THEN Result("None", ScalarOf(toks[1]))
        ELSE IF n >= 2 /\ toks[1] = Tok("punct","{") /\ toks[n] = Tok("punct","}")
                /\ (inner = << >> \/ IsMembers(inner))
          THEN Result("None",
                 PyVal("dict", "",
                       [i \in 1..((Len(inner) + 1) \div 4) |->
                           <<inner[4*i - 3].v, ScalarOf(inner[4*i - 1])>>]))
        ELSE IF n >= 2 /\ toks[1] = Tok("punct","[") /\ toks[n] = Tok("punct","]")
                /\ (inner = << >> \/ IsElements(inner))
          THEN Result("None", PyVal("list", "", << >>))
        ELSE Result("JSONDecodeError", PyNone)

\* obj[key] of Python: only a dict holding the key answers
Subscript(obj, key) ==
    IF obj.py # "dict" THEN Result("TypeError", PyNone)
    ELSE LET hits == {i \in 1..Len(obj.items) : obj.items[i][1] = key}
         IN  IF hits = {} THEN Result("KeyError", PyNone)
             ELSE Result("None",
                         obj.items[CHOOSE i \in hits : \A j \in hits : j <= i][2])

ScalarTok(val) ==
    IF val.py = "NoneType" THEN Tok("null", "null") ELSE Tok(val.py, val.v)

\* variant: the message is turned into a string before it is dumped
json_dumps_message_as_str(message) ==
    <<Tok("punct","{"), Tok("str","message"), Tok("punct",":"), Ws,
      Tok("str", message.v), Tok("punct","}")>>

\* json.dumps({"message": message}) with the default separators ", " and ": "
json_dumps_message(message) ==
    <<Tok("punct","{"), Tok("str","message"), Tok("punct",":"), Ws,
      ScalarTok(message), Tok("punct","}")>>

\* --------------------------------------------------------------- the state
VARIABLES
    st,               \* session state of each consumer
    room_name,        \* self.room_name
    room_group_name,  \* self.room_group_name
    groups,           \* the channel layer's group membership
    mailbox,          \* the channel layer's queue of each channel
    accepted,         \* the handshake of the connection was accepted
    transport,        \* the client's end of the connection: "open" / "closed"
    outbox,           \* what each consumer sent to its client, in order
    err,              \* the exception that ended a handler of the consumer
    calls,            \* history: the handlers run on each consumer and the
                      \* channel-layer and transport calls they made, in order
    bcasts,           \* history: the group_send calls, in order, each with the
                      \* members of the group when it was made
    closedAt,         \* history: Len(bcasts) when disconnect() returned, -1 before
    inputs            \* history: the client events so far

vars == <<st, room_name, room_group_name, groups, mailbox, accepted,
          transport, outbox, err, calls, bcasts, closedAt, inputs>>

\* ----------------------------------------------------------- channel layer
\* The groups of the layer: a relation between group names and channels.
\* The channel name of a consumer instance is its identity in Conns.
\* variant: the length limit is not enforced
valid_group_name_charset_only(name) ==
    \A i \in 1..Len(name) : name[i] \in GroupNameChars

valid_group_name(name) ==
    /\ Len(name) <= MaxGroupNameLen
    /\ \A i \in 1..Len(name) : name[i] \in GroupNameChars

\* variant: every channel is put in the group of the bare prefix as well
group_add_also_prefix_group(grps, group, channel) ==
    IF valid_group_name(group)
      THEN [err |-> "None",
            groups |-> grps \cup {<<group, channel>>, <<ChatPrefix, channel>>}]
      ELSE [err |-> "TypeError", groups |-> grps]

group_add(grps, group, channel) ==
    IF valid_group_name(group)
      THEN [err |-> "None", groups |-> grps \cup {<<group, channel>>}]
      ELSE [err |-> "TypeError", groups |-> grps]

\* variant: the channel stays registered
group_discard_keeps(grps, group, channel) ==
    IF valid_group_name(group)
      THEN [err |-> "None", groups |-> grps]
      ELSE [err |-> "TypeError", groups |-> grps]

\* variant: removing an absent channel raises, as set.remove would
group_discard_strict(grps, group, channel) ==
    IF ~ valid_group_name(group)
      THEN [err |-> "TypeError", groups |-> grps]
    ELSE IF <<group, channel>> \notin grps
      THEN [err |-> "KeyError", groups |-> grps]
    ELSE [err |-> "None", groups |-> grps \ {<<group, channel>>}]

\* variant: the whole group is dropped
group_discard_whole_group(grps, group, channel) ==
    IF valid_group_name(group)
      THEN [err |-> "None", groups |-> {p \in grps : p[1] # group}]
      ELSE [err |-> "TypeError", groups |-> grps]

group_discard(grps, group, channel) ==
    IF valid_group_name(group)
      THEN [err |-> "None", groups |-> grps \ {<<group, channel>>}]
      ELSE [err |-> "TypeError", groups |-> grps]

\* variant: the fan-out stops at the first member whose client is gone
group_send_aborts(grps, group) ==
    {ch \in Conns : /\ <<group, ch>> \in grps
                    /\ \A d \in Conns :
                         (<<group, d>> \in grps /\ d <= ch) => transport[d] = "open"}

\* variant: only the first member gets the event
group_send_first_only(grps, group) ==
    {ch \in Conns : /\ <<group, ch>> \in grps
                    /\ \A d \in Conns : <<group, d>> \in grps => ch <= d}

\* variant: members whose client is gone are left out
group_send_connected_only(grps, group) ==
    {ch \in Conns : <<group, ch>> \in grps /\ transport[ch] = "open"}

\* The channels an event sent to the group is put to: its members now.
group_send(grps, group) ==
    {ch \in Conns : <<group, ch>> \in grps}

\* variant: the room name is left out of the group name
RoomGroupName_fixed(room) == ChatPrefix

\* f"chat_{self.room_name}"
RoomGroupName(room) == ChatPrefix \o room

Call(op, ok) == [op |-> op, ok |-> ok]

Init ==
    /\ st = [c \in Conns |-> "Unjoined"]
    /\ room_name = [c \in Conns |-> Unset]
    /\ room_group_name = [c \in Conns |-> Unset]
    /\ groups = {}
    /\ mailbox = [c \in Conns |-> << >>]
    /\ accepted = [c \in Conns |-> FALSE]
    /\ transport = [c \in Conns |-> "open"]
    /\ outbox = [c \in Conns |-> << >>]
    /\ err = [c \in Conns |-> "None"]
    /\ calls = [c \in Conns |-> << >>]
    /\ bcasts = << >>
    /\ closedAt = [c \in Conns |-> -1]
    /\ inputs = 0

\* ---------------------------------------------------------------- connect
\* variant of connect: accept() is called before the group is joined
ConnectJoin_accepts_first(c, scope) ==
    /\ inputs < MaxInputs
    /\ inputs' = inputs + 1
    /\ st[c] = "Unjoined"
    /\ \E kv \in scope.kwargs :
         /\ kv[1] = "room_name"
         /\ LET g == RoomGroupName(kv[2])
                r == group_add(groups, g, c)
            IN  /\ r.err = "None"
                /\ room_name' = [room_name EXCEPT ![c] = kv[2]]
                /\ room_group_name' = [room_group_name EXCEPT ![c] = g]
                /\ groups' = r.groups
                /\ calls' = [calls EXCEPT ![c] =
                               @ \o <<Call("connect", TRUE), Call("accept", TRUE),
                                      Call("group_add", TRUE)>>]
    /\ accepted' = [accepted EXCEPT ![c] = TRUE]
    /\ st' = [st EXCEPT ![c] = "Joined"]
    /\ UNCHANGED <<mailbox, transport, outbox, err, bcasts, closedAt>>

\* ChatConsumer.connect: group_add succeeds, then accept()
ConnectJoin(c, scope) ==
    /\ inputs < MaxInputs
    /\ inputs' = inputs + 1
    /\ st[c] = "Unjoined"
    /\ \E kv \in scope.kwargs :
         /\ kv[1] = "room_name"
         /\ LET g == RoomGroupName(kv[2])
                r == group_add(groups, g, c)
            IN  /\ r.err = "None"
                /\ room_name' = [room_name EXCEPT ![c] = kv[2]]
                /\ room_group_name' = [room_group_name EXCEPT ![c] = g]
                /\ groups' = r.groups
                /\ calls' = [calls EXCEPT ![c] =
                               @ \o <<Call("connect", TRUE), Call("group_add", TRUE),
                                      Call("accept", TRUE)>>]
    /\ accepted' = [accepted EXCEPT ![c] = TRUE]
    /\ st' = [st EXCEPT ![c] = "Joined"]
    /\ UNCHANGED <<mailbox, transport, outbox, err, bcasts, closedAt>>

\* ChatConsumer.connect: group_add raises, accept() is not reached
ConnectRefused(c, scope) ==
    /\ inputs < MaxInputs
    /\ inputs' = inputs + 1
    /\ st[c] = "Unjoined"
    /\ \E kv \in scope.kwargs :
         /\ kv[1] = "room_name"
         /\ LET g == RoomGroupName(kv[2])
                r == group_add(groups, g, c)
            IN  /\ r.err # "None"
                /\ room_name' = [room_name EXCEPT ![c] = kv[2]]
                /\ room_group_name' = [room_group_name EXCEPT ![c] = g]
                /\ groups' = r.groups
                /\ err' = [err EXCEPT ![c] = r.err]
                /\ calls' = [calls EXCEPT ![c] =
                               @ \o <<Call("connect", FALSE), Call("group_add", FALSE)>>]
    /\ st' = [st EXCEPT ![c] = "Refused"]
    /\ transport' = [transport EXCEPT ![c] = "closed"]
    /\ UNCHANGED <<mailbox, accepted, outbox, bcasts, closedAt>>

\* ---------------------------------------------------------------- receive
Event(message, bid) == [type |-> "chat.message", message |-> message, bid |-> bid]

\* text_data_json = json.loads(text_data); message = text_data_json["message"]
ParseMessage(text_data) ==
    LET text_data_json == json_loads(text_data)
    IN  IF text_data_json.err # "None" THEN text_data_json
        ELSE Subscript(text_data_json.val, "message")

\* variant: group_send hands the event over only to idle recipients and
\* waits for the others
ReceiveSend_waits_for_recipients(c, text_data) ==
    /\ inputs < MaxInputs
    /\ inputs' = inputs + 1
    /\ st[c] = "Joined"
    /\ transport[c] = "open"
    /\ LET m == ParseMessage(text_data)
           bid == Len(bcasts) + 1
           to == group_send(groups, room_group_name[c])
           members == {ch \in Conns : <<room_group_name[c], ch>> \in groups}
       IN  /\ m.err = "None"
           /\ \A d \in to : mailbox[d] = << >>
           /\ mailbox' = [d \in Conns |->
                            IF d \in to THEN Append(mailbox[d], Event(m.val, bid))
                                        ELSE mailbox[d]]
           /\ bcasts' = Append(bcasts, [sender |-> c, group |-> room_group_name[c],
                                        text |-> text_data, message |-> m.val,
                                        members |-> members,
                                        recipients |-> to])
    /\ calls' = [calls EXCEPT ![c] =
                   @ \o <<Call("receive", TRUE), Call("group_send", TRUE)>>]
    /\ UNCHANGED <<st, room_name, room_group_name, groups, accepted, transport,
                   outbox, err, closedAt>>

\* ChatConsumer.receive: the message is sent to the room group
ReceiveSend(c, text_data) ==
    /\ inputs < MaxInputs
    /\ inputs' = inputs + 1
    /\ st[c] = "Joined"
    /\ transport[c] = "open"
    /\ LET m == ParseMessage(text_data)
           bid == Len(bcasts) + 1
           to == group_send(groups, room_group_name[c])
           members == {ch \in Conns : <<room_group_name[c], ch>> \in groups}
       IN  /\ m.err = "None"
           /\ mailbox' = [d \in Conns |->
                            IF d \in to THEN Append(mailbox[d], Event(m.val, bid))
                                        ELSE mailbox[d]]
           /\ bcasts' = Append(bcasts, [sender |-> c, group |-> room_group_name[c],
                                        text |-> text_data, message |-> m.val,
                                        members |-> members,
                                        recipients |-> to])
    /\ calls' = [calls EXCEPT ![c] =
                   @ \o <<Call("receive", TRUE), Call("group_send", TRUE)>>]
    /\ UNCHANGED <<st, room_name, room_group_name, groups, accepted, transport,
                   outbox, err, closedAt>>

\* variant: a failing receive takes the consumer out of its group
ReceiveRaise_leaves_group(c, text_data) ==
    /\ inputs < MaxInputs
    /\ inputs' = inputs + 1
    /\ st[c] = "Joined"
    /\ transport[c] = "open"
    /\ LET m == ParseMessage(text_data)
       IN  /\ m.err # "None"
           /\ err' = [err EXCEPT ![c] = m.err]
    /\ st' = [st EXCEPT ![c] = "Crashed"]
    /\ groups' = groups \ {<<room_group_name[c], c>>}
    /\ transport' = [transport EXCEPT ![c] = "closed"]
    /\ calls' = [calls EXCEPT ![c] = @ \o <<Call("receive", FALSE)>>]
    /\ UNCHANGED <<room_name, room_group_name, mailbox, accepted,
                   outbox, bcasts, closedAt>>

\* ChatConsumer.receive: json.loads or ["message"] raises; the exception
\* leaves the handler and ends the consumer, disconnect() is not run.
ReceiveRaise(c, text_data) ==
    /\ inputs < MaxInputs
    /\ inputs' = inputs + 1
    /\ st[c] = "Joined"
    /\ transport[c] = "open"
    /\ LET m == ParseMessage(text_data)
       IN  /\ m.err # "None"
           /\ err' = [err EXCEPT ![c] = m.err]
    /\ st' = [st EXCEPT ![c] = "Crashed"]
    /\ transport' = [transport EXCEPT ![c] = "closed"]
    /\ calls' = [calls EXCEPT ![c] = @ \o <<Call("receive", FALSE)>>]
    /\ UNCHANGED <<room_name, room_group_name, groups, mailbox, accepted,
                   outbox, bcasts, closedAt>>

\* ----------------------------------------------------------- chat_message
Sent(text, bid) == [text |-> text, bid |-> bid]

\* variant: events are still relayed after the consumer has disconnected
Deliver_after_close(c) ==
    /\ st[c] \in {"Joined", "Closed"}
    /\ mailbox[c] # << >>
    /\ st[c] = "Joined" => transport[c] = "open"
    /\ LET event == Head(mailbox[c])
           message == event.message
       IN  outbox' = [outbox EXCEPT ![c] =
                        Append(@, Sent(json_dumps_message(message), event.bid))]
    /\ mailbox' = [mailbox EXCEPT ![c] = Tail(@)]
    /\ calls' = [calls EXCEPT ![c] =
                   @ \o <<Call("chat_message", TRUE), Call("send", TRUE)>>]
    /\ UNCHANGED <<st, room_name, room_group_name, groups, accepted, transport,
                   err, bcasts, closedAt>>
    /\ UNCHANGED inputs

\* variant: the newest event of the channel is handled first
Deliver_newest_first(c) ==
    /\ st[c] = "Joined"
    /\ mailbox[c] # << >>
    /\ transport[c] = "open"
    /\ LET event == mailbox[c][Len(mailbox[c])]
           message == event.message
       IN  outbox' = [outbox EXCEPT ![c] =
                        Append(@, Sent(json_dumps_message(message), event.bid))]
    /\ mailbox' = [mailbox EXCEPT ![c] = SubSeq(@, 1, Len(@) - 1)]
    /\ calls' = [calls EXCEPT ![c] =
                   @ \o <<Call("chat_message", TRUE), Call("send", TRUE)>>]
    /\ UNCHANGED <<st, room_name, room_group_name, groups, accepted, transport,
                   err, bcasts, closedAt>>
    /\ UNCHANGED inputs

\* ChatConsumer.chat_message on the next event of the consumer's channel
Deliver(c) ==
    /\ st[c] = "Joined"
    /\ mailbox[c] # << >>
    /\ transport[c] = "open"
    /\ LET event == Head(mailbox[c])
           message == event.message
       IN  outbox' = [outbox EXCEPT ![c] =
                        Append(@, Sent(json_dumps_message(message), event.bid))]
    /\ mailbox' = [mailbox EXCEPT ![c] = Tail(@)]
    /\ calls' = [calls EXCEPT ![c] =
                   @ \o <<Call("chat_message", TRUE), Call("send", TRUE)>>]
    /\ UNCHANGED <<st, room_name, room_group_name, groups, accepted, transport,
                   err, bcasts, closedAt>>
    /\ UNCHANGED inputs

\* chat_message when the client is gone and the server drops the frame
DeliverDropped(c) ==
    /\ st[c] = "Joined"
    /\ mailbox[c] # << >>
    /\ transport[c] = "closed"
    /\ mailbox' = [mailbox EXCEPT ![c] = Tail(@)]
    /\ calls' = [calls EXCEPT ![c] =
                   @ \o <<Call("chat_message", TRUE), Call("send", FALSE)>>]
    /\ UNCHANGED <<st, room_name, room_group_name, groups, accepted, transport,
                   outbox, err, bcasts, closedAt>>
    /\ UNCHANGED inputs

\* chat_message when the client is gone and self.send raises: the exception
\* leaves the handler and ends the consumer, disconnect() is not run.
DeliverRaise(c) ==
    /\ st[c] = "Joined"
    /\ mailbox[c] # << >>
    /\ transport[c] = "closed"
    /\ mailbox' = [mailbox EXCEPT ![c] = Tail(@)]
    /\ calls' = [calls EXCEPT ![c] =
                   @ \o <<Call("chat_message", FALSE), Call("send", FALSE)>>]
    /\ st' = [st EXCEPT ![c] = "Crashed"]
    /\ err' = [err EXCEPT ![c] = "SendError"]
    /\ UNCHANGED <<room_name, room_group_name, groups, accepted, transport,
                   outbox, bcasts, closedAt>>
    /\ UNCHANGED inputs

\* ------------------------------------------------------------- disconnect
\* The client closes its end; websocket.disconnect is then dispatched.
ClientClose(c) ==
    /\ inputs < MaxInputs
    /\ inputs' = inputs + 1
    /\ st[c] = "Joined"
    /\ transport[c] = "open"
    /\ transport' = [transport EXCEPT ![c] = "closed"]
    /\ UNCHANGED <<st, room_name, room_group_name, groups, mailbox, accepted,
                   outbox, err, calls, bcasts, closedAt>>

DisconnectEnabled(c) ==
    /\ transport[c] = "closed"
    /\ st[c] \in {"Joined", "Refused"}

\* ChatConsumer.disconnect: group_discard returns
Disconnect(c) ==
    /\ DisconnectEnabled(c)
    /\ room_group_name[c] # Unset
    /\ LET r == group_discard(groups, room_group_name[c], c)
       IN  /\ r.err = "None"
           /\ groups' = r.groups
    /\ calls' = [calls EXCEPT ![c] =
                   @ \o <<Call("disconnect", TRUE), Call("group_discard", TRUE)>>]
    /\ st' = [st EXCEPT ![c] = "Closed"]
    /\ closedAt' = [closedAt EXCEPT ![c] = Len(bcasts)]
    /\ UNCHANGED <<room_name, room_group_name, mailbox, accepted, transport,
                   outbox, err, bcasts>>
    /\ UNCHANGED inputs

\* ChatConsumer.disconnect: group_discard raises on the group name; the
\* exception leaves the handler and ends the consumer.
DisconnectRaise(c) ==
    /\ DisconnectEnabled(c)
    /\ room_group_name[c] # Unset
    /\ LET r == group_discard(groups, room_group_name[c], c)
       IN  /\ r.err # "None"
           /\ groups' = r.groups
           /\ err' = [err EXCEPT ![c] = r.err]
    /\ calls' = [calls EXCEPT ![c] =
                   @ \o <<Call("disconnect", FALSE), Call("group_discard", FALSE)>>]
    /\ st' = [st EXCEPT ![c] = "Crashed"]
    /\ UNCHANGED <<room_name, room_group_name, mailbox, accepted, transport,
                   outbox, bcasts, closedAt>>
    /\ UNCHANGED inputs

\* ------------------------------------------------------------------- spec
Next ==
    \/ \E c \in Conns, scope \in Scopes : ConnectJoin(c, scope)
    \/ \E c \in Conns, scope \in Scopes : ConnectRefused(c, scope)
    \/ \E c \in Conns, text_data \in Frames : ReceiveSend(c, text_data)
    \/ \E c \in Conns, text_data \in Frames : ReceiveRaise(c, text_data)
    \/ \E c \in Conns : Deliver(c)
    \/ \E c \in Conns : DeliverDropped(c)
    \/ \E c \in Conns : DeliverRaise(c)
    \/ \E c \in Conns : ClientClose(c)
    \/ \E c \in Conns : Disconnect(c)
    \/ \E c \in Conns : DisconnectRaise(c)

Spec == Init /\ [][Next]_vars

\* Every consumer keeps handling the events of its own channel: the dispatch
\* loop of a running consumer takes the next event whenever there is one.
FairSpec == Spec /\ \A c \in Conns : WF_vars(Deliver(c))

\* ------------------------------------------------------ AsyncChatConsumer
\* The handlers of AsyncChatConsumer: the statements of ChatConsumer as
\* coroutines, the channel layer and the socket awaited instead of wrapped
\* in async_to_sync. One consumer still handles one event at a time.

\* AsyncChatConsumer.connect: group_add is awaited and returns, then accept() is awaited
Async_ConnectJoin(c, scope) ==
    /\ inputs < MaxInputs
    /\ inputs' = inputs + 1
    /\ st[c] = "Unjoined"
    /\ \E kv \in scope.kwargs :
         /\ kv[1] = "room_name"
         /\ LET g == RoomGroupName(kv[2])
                r == group_add(groups, g, c)
            IN  /\ r.err = "None"
                /\ room_name' = [room_name EXCEPT ![c] = kv[2]]
                /\ room_group_name' = [room_group_name EXCEPT ![c] = g]
                /\ groups' = r.groups
                /\ calls' = [calls EXCEPT ![c] =
                               @ \o <<Call("connect", TRUE), Call("group_add", TRUE),
                                      Call("accept", TRUE)>>]
    /\ accepted' = [accepted EXCEPT ![c] = TRUE]
    /\ st' = [st EXCEPT ![c] = "Joined"]
    /\ UNCHANGED <<mailbox, transport, outbox, err, bcasts, closedAt>>

\* AsyncChatConsumer.connect: the awaited group_add raises, accept() is not reached
Async_ConnectRefused(c, scope) ==
    /\ inputs < MaxInputs
    /\ inputs' = inputs + 1
    /\ st[c] = "Unjoined"
    /\ \E kv \in scope.kwargs :
         /\ kv[1] = "room_name"
         /\ LET g == RoomGroupName(kv[2])
                r == group_add(groups, g, c)
            IN  /\ r.err # "None"
                /\ room_name' = [room_name EXCEPT ![c] = kv[2]]
                /\ room_group_name' = [room_group_name EXCEPT ![c] = g]
                /\ groups' = r.groups
                /\ err' = [err EXCEPT ![c] = r.err]
                /\ calls' = [calls EXCEPT ![c] =
                               @ \o <<Call("connect", FALSE), Call("group_add", FALSE)>>]
    /\ st' = [st EXCEPT ![c] = "Refused"]
    /\ transport' = [transport EXCEPT ![c] = "closed"]
    /\ UNCHANGED <<mailbox, accepted, outbox, bcasts, closedAt>>

\* json.loads(text_data)["message"] of AsyncChatConsumer.receive
Async_ParseMessage(text_data) ==
    LET text_data_json == json_loads(text_data)
    IN  IF text_data_json.err # "None" THEN text_data_json
        ELSE Subscript(text_data_json.val, "message")

\* AsyncChatConsumer.receive: the frame parses, group_send is awaited
Async_ReceiveSend(c, text_data) ==
    /\ inputs < MaxInputs
    /\ inputs' = inputs + 1
    /\ st[c] = "Joined"
    /\ transport[c] = "open"
    /\ LET m == Async_ParseMessage(text_data)
           bid == Len(bcasts) + 1
           to == group_send(groups, room_group_name[c])
           members == {ch \in Conns : <<room_group_name[c], ch>> \in groups}
       IN  /\ m.err = "None"
           /\ mailbox' = [d \in Conns |->
                            IF d \in to THEN Append(mailbox[d], Event(m.val, bid))
                                        ELSE mailbox[d]]
           /\ bcasts' = Append(bcasts, [sender |-> c, group |-> room_group_name[c],
                                        text |-> text_data, message |-> m.val,
                                        members |-> members,
                                        recipients |-> to])
    /\ calls' = [calls EXCEPT ![c] =
                   @ \o <<Call("receive", TRUE), Call("group_send", TRUE)>>]
    /\ UNCHANGED <<st, room_name, room_group_name, groups, accepted, transport,
                   outbox, err, closedAt>>

\* AsyncChatConsumer.receive: json.loads or ["message"] raises
Async_ReceiveRaise(c, text_data) ==
    /\ inputs < MaxInputs
    /\ inputs' = inputs + 1
    /\ st[c] = "Joined"
    /\ transport[c] = "open"
    /\ LET m == Async_ParseMessage(text_data)
       IN  /\ m.err # "None"
           /\ err' = [err EXCEPT ![c] = m.err]
    /\ st' = [st EXCEPT ![c] = "Crashed"]
    /\ transport' = [transport EXCEPT ![c] = "closed"]
    /\ calls' = [calls EXCEPT ![c] = @ \o <<Call("receive", FALSE)>>]
    /\ UNCHANGED <<room_name, room_group_name, groups, mailbox, accepted,
                   outbox, bcasts, closedAt>>

\* AsyncChatConsumer.chat_message: the payload is sent to the client
Async_Deliver(c) ==
    /\ st[c] = "Joined"
    /\ mailbox[c] # << >>
    /\ transport[c] = "open"
    /\ LET event == Head(mailbox[c])
           message == event.message
       IN  outbox' = [outbox EXCEPT ![c] =
                        Append(@, Sent(json_dumps_message(message), event.bid))]
    /\ mailbox' = [mailbox EXCEPT ![c] = Tail(@)]
    /\ calls' = [calls EXCEPT ![c] =
                   @ \o <<Call("chat_message", TRUE), Call("send", TRUE)>>]
    /\ UNCHANGED <<st, room_name, room_group_name, groups, accepted, transport,
                   err, bcasts, closedAt>>
    /\ UNCHANGED inputs

\* AsyncChatConsumer.chat_message when the client is gone and the frame is dropped
Async_DeliverDropped(c) ==
    /\ st[c] = "Joined"
    /\ mailbox[c] # << >>
    /\ transport[c] = "closed"
    /\ mailbox' = [mailbox EXCEPT ![c] = Tail(@)]
    /\ calls' = [calls EXCEPT ![c] =
                   @ \o <<Call("chat_message", TRUE), Call("send", FALSE)>>]
    /\ UNCHANGED <<st, room_name, room_group_name, groups, accepted, transport,
                   outbox, err, bcasts, closedAt>>
    /\ UNCHANGED inputs

\* AsyncChatConsumer.chat_message when the client is gone and self.send raises
Async_DeliverRaise(c) ==
    /\ st[c] = "Joined"
    /\ mailbox[c] # << >>
    /\ transport[c] = "closed"
    /\ mailbox' = [mailbox EXCEPT ![c] = Tail(@)]
    /\ calls' = [calls EXCEPT ![c] =
                   @ \o <<Call("chat_message", FALSE), Call("send", FALSE)>>]
    /\ st' = [st EXCEPT ![c] = "Crashed"]
    /\ err' = [err EXCEPT ![c] = "SendError"]
    /\ UNCHANGED <<room_name, room_group_name, groups, accepted, transport,
                   outbox, bcasts, closedAt>>
    /\ UNCHANGED inputs

\* variant: the group_discard coroutine is created but not awaited
Async_Disconnect_not_awaited(c) ==
    /\ DisconnectEnabled(c)
    /\ room_group_name[c] # Unset
    /\ LET r == group_discard(groups, room_group_name[c], c)
       IN  /\ r.err = "None"
           /\ groups' = groups
    /\ calls' = [calls EXCEPT ![c] =
                   @ \o <<Call("disconnect", TRUE)>>]
    /\ st' = [st EXCEPT ![c] = "Closed"]
    /\ closedAt' = [closedAt EXCEPT ![c] = Len(bcasts)]
    /\ UNCHANGED <<room_name, room_group_name, mailbox, accepted, transport,
                   outbox, err, bcasts>>
    /\ UNCHANGED inputs

\* AsyncChatConsumer.disconnect: the awaited group_discard returns
Async_Disconnect(c) ==
    /\ DisconnectEnabled(c)
    /\ room_group_name[c] # Unset
    /\ LET r == group_discard(groups, room_group_name[c], c)
       IN  /\ r.err = "None"
           /\ groups' = r.groups
    /\ calls' = [calls EXCEPT ![c] =
                   @ \o <<Call("disconnect", TRUE), Call("group_discard", TRUE)>>]
    /\ st' = [st EXCEPT ![c] = "Closed"]
    /\ closedAt' = [closedAt EXCEPT ![c] = Len(bcasts)]
    /\ UNCHANGED <<room_name, room_group_name, mailbox, accepted, transport,
                   outbox, err, bcasts>>
    /\ UNCHANGED inputs

\* AsyncChatConsumer.disconnect: the awaited group_discard raises
Async_DisconnectRaise(c) ==
    /\ DisconnectEnabled(c)
    /\ room_group_name[c] # Unset
    /\ LET r == group_discard(groups, room_group_name[c], c)
       IN  /\ r.err # "None"
           /\ groups' = r.groups
           /\ err' = [err EXCEPT ![c] = r.err]
    /\ calls' = [calls EXCEPT ![c] =
                   @ \o <<Call("disconnect", FALSE), Call("group_discard", FALSE)>>]
    /\ st' = [st EXCEPT ![c] = "Crashed"]
    /\ UNCHANGED <<room_name, room_group_name, mailbox, accepted, transport,
                   outbox, bcasts, closedAt>>
    /\ UNCHANGED inputs

AsyncNext ==
    \/ \E c \in Conns, scope \in Scopes : Async_ConnectJoin(c, scope)
    \/ \E c \in Conns, scope \in Scopes : Async_ConnectRefused(c, scope)
    \/ \E c \in Conns, text_data \in Frames : Async_ReceiveSend(c, text_data)
    \/ \E c \in Conns, text_data \in Frames : Async_ReceiveRaise(c, text_data)
    \/ \E c \in Conns : Async_Deliver(c)
    \/ \E c \in Conns : Async_DeliverDropped(c)
    \/ \E c \in Conns : Async_DeliverRaise(c)
    \/ \E c \in Conns : ClientClose(c)
    \/ \E c \in Conns : Async_Disconnect(c)
    \/ \E c \in Conns : Async_DisconnectRaise(c)

\* Connections served by either consumer class, on the same channel layer.
TwinNext == Next \/ AsyncNext

TwinSpec == Init /\ [][TwinNext]_vars

\* ================================================================ claims
BcastIds == 1..Len(bcasts)

InMailbox(c, k) == \E i \in 1..Len(mailbox[c]) : mailbox[c][i].bid = k
InOutbox(c, k)  == \E i \in 1..Len(outbox[c]) : outbox[c][i].bid = k

\* the event of broadcast k was put to, is pending at, or was relayed by c
Reached(c, k) ==
    \/ c \in bcasts[k].recipients
    \/ InMailbox(c, k)
    \/ InOutbox(c, k)

Has(c, call) == \E i \in 1..Len(calls[c]) : calls[c][i] = call
Ran(c, op)   == \E i \in 1..Len(calls[c]) : calls[c][i].op = op

\* C1: room isolation -- a message broadcast in the group of room r1 never
\* reaches (is never queued for, nor relayed by) a session whose room is a
\* different identifier r2.
C1_RoomIsolation ==
    \A k \in BcastIds : \A c \in Conns :
        room_name[c] # room_name[bcasts[k].sender] => ~ Reached(c, k)

\* a broadcast was relayed to its sender while a session of another room is
\* joined with its client connected
C1_Witness ==
    \E k \in BcastIds : \E c \in Conns :
        /\ InOutbox(bcasts[k].sender, k)
        /\ st[c] = "Joined" /\ transport[c] = "open"
        /\ room_name[c] # room_name[bcasts[k].sender]

\* C2: once disconnect() of a joined session S has returned, a broadcast to
\* S's group that starts afterwards is never put to S, never handled by S's
\* chat_message, and S's client gets no payload for it.
C2_NoDeliveryAfterDisconnect ==
    \A c \in Conns : \A k \in BcastIds :
        (st[c] = "Closed" /\ closedAt[c] < k) => ~ Reached(c, k)

\* a broadcast to the group a session left was made after it left, and the
\* remaining member relayed it
C2_Witness ==
    \E c \in Conns : \E k \in BcastIds :
        /\ st[c] = "Closed" /\ closedAt[c] < k
        /\ bcasts[k].group = room_group_name[c]
        /\ InOutbox(bcasts[k].sender, k)

\* C3: round trip.  Delivered(c, k): c sent its client a payload for
\* broadcast k that parses to {"message": X} with the X of the inbound frame.
C3_Delivered(c, k) ==
    \E i \in 1..Len(outbox[c]) :
        /\ outbox[c][i].bid = k
        /\ LET out == json_loads(outbox[c][i].text)
               inb == json_loads(bcasts[k].text)
           IN  /\ out.err = "None"
               /\ out.val.py = "dict"
               /\ Len(out.val.items) = 1
               /\ Subscript(out.val, "message") = Subscript(inb.val, "message")

\* C3 as claimed: every member of the group at the time of the broadcast,
\* the sender included, eventually sends {"message": X} to its client.
C3_EveryMemberEventuallySends ==
    \A c \in Conns : \A k \in 1..MaxInputs :
        (k \in BcastIds /\ c \in bcasts[k].members) ~> C3_Delivered(c, k)

\* C3 as amended: every member of the group at the time of the broadcast,
\* the sender included, eventually sends {"message": X} to its client
\* unless it stops being a Joined session with a connected client first.
\* Owed are the deliveries still due; that they are all settled again and
\* again gives, for each of them, the "eventually" of the claim.
C3_Owed ==
    {p \in Conns \X BcastIds :
        /\ p[1] \in bcasts[p[2]].members
        /\ ~ C3_Delivered(p[1], p[2])
        /\ st[p[1]] = "Joined" /\ transport[p[1]] = "open"}

C3_MemberSendsWhileConnected == []<>(C3_Owed = {})

\* the sender and another member both relayed the message of one broadcast
C3_Witness ==
    \E k \in BcastIds : \E c \in bcasts[k].members :
        /\ c # bcasts[k].sender
        /\ C3_Delivered(c, k)
        /\ C3_Delivered(bcasts[k].sender, k)

\* C4: connect with a room identifier whose group name is longer than the
\* maximum or holds a character outside alphanumerics, hyphen, underscore and
\* period fails: the step leaves the registry as it was and raises the
\* layer's invalid-name error, accept is never signalled, the session is in
\* no group and never Joined.
C4_BadName(name) ==
    \/ Len(name) > MaxGroupNameLen
    \/ \E i \in 1..Len(name) : name[i] \notin GroupNameChars

C4_Refused(c) ==
    /\ ~ accepted[c]
    /\ ~ Ran(c, "accept")
    /\ ~ Has(c, Call("group_add", TRUE))
    /\ Has(c, Call("connect", FALSE))
    /\ st[c] \notin {"Joined", "Closed"}
    /\ \A p \in groups : p[2] # c

C4_ConnectStep(c) ==
    (/\ room_name[c] = Unset
     /\ room_name'[c] # Unset
     /\ C4_BadName(ChatPrefix \o room_name'[c]))
    => (/\ groups' = groups
        /\ st'[c] = "Refused"
        /\ err'[c] = "TypeError")

C4_InvalidGroupNameRefused ==
    /\ [](\A c \in Conns :
            (room_name[c] # Unset /\ C4_BadName(ChatPrefix \o room_name[c]))
                => C4_Refused(c))
    /\ [][\A c \in Conns : C4_ConnectStep(c)]_vars

\* a connection with a too long or ill-formed identifier was refused while
\* another session is registered
C4_Witness ==
    \E c, e \in Conns :
        /\ room_name[c] \in {RoomSpace, RoomLong}
        /\ st[c] = "Refused"
        /\ <<room_group_name[e], e>> \in groups

\* C5: delivery-failure isolation -- an event of a broadcast is missing at a
\* member of the group only through that member's own failed send; every
\* other member has it pending or relayed, and a send error is raised only
\* in the context of the member whose send failed, never in the sender's.
C5_Lost(d) ==
    {k \in BcastIds : d \in bcasts[k].members /\ ~ InMailbox(d, k) /\ ~ InOutbox(d, k)}

C5_FailedSends(d) ==
    {i \in 1..Len(calls[d]) : calls[d][i] = Call("send", FALSE)}

C5_FailureIsolation ==
    \A d \in Conns :
        /\ Cardinality(C5_Lost(d)) = Cardinality(C5_FailedSends(d))
        /\ err[d] = "SendError" => C5_FailedSends(d) # {}

\* one member's send failed and another member of the same broadcast relayed
\* the event, the sender having met no error
C5_Witness ==
    \E k \in BcastIds : \E c, d \in bcasts[k].members :
        /\ c # d
        /\ k \in C5_Lost(c)
        /\ InOutbox(d, k)
        /\ err[bcasts[k].sender] = "None"

C7_MembershipInvariant ==
    groups = {<<room_group_name[c], c>> :
                c \in {d \in Conns : /\ Has(d, Call("group_add", TRUE))
                                     /\ ~ Has(d, Call("group_discard", TRUE))}}

\* one session is registered, another was added and then removed
C7_Witness ==
    \E c, d \in Conns :
        /\ <<room_group_name[c], c>> \in groups
        /\ room_group_name[d] = room_group_name[c]
        /\ Has(d, Call("group_add", TRUE))
        /\ Has(d, Call("group_discard", TRUE))
        /\ <<room_group_name[d], d>> \notin groups

\* C8: whenever disconnect() runs on a session -- one that never joined
\* because connect failed included -- it returns without error, has called
\* group_discard exactly once and leaves the session Closed.
C8_DisconnectRemovesOnce ==
    \A c \in Conns :
        Ran(c, "disconnect") =>
            /\ Has(c, Call("disconnect", TRUE))
            /\ Cardinality({i \in 1..Len(calls[c]) :
                              calls[c][i] = Call("group_discard", TRUE)}) = 1
            /\ st[c] = "Closed"

\* C9: no broadcast is issued for a payload that does not parse, has no
\* message field, or whose message field is not a string.
C9_Malformed == {TxtNum, TxtNoField, TxtList, TxtJunk}

C9_MalformedNeverBroadcast ==
    \A k \in BcastIds : bcasts[k].text \notin C9_Malformed

\* C10: accept is signalled only after group_add has returned, a session
\* handles inbound frames only after accept, and so whenever a session sends
\* to its group it is itself a member of that group.
C10_RegisteredBeforeAccept ==
    /\ \A c \in Conns : \A i \in 1..Len(calls[c]) :
         /\ calls[c][i].op = "accept" =>
               \E j \in 1..(i - 1) : calls[c][j] = Call("group_add", TRUE)
         /\ calls[c][i].op = "receive" =>
               \E j \in 1..(i - 1) : calls[c][j] = Call("accept", TRUE)
    /\ \A k \in BcastIds : bcasts[k].sender \in bcasts[k].members

\* a session handled a frame and its broadcast came back to it
C10_Witness ==
    \E k \in BcastIds :
        /\ Ran(bcasts[k].sender, "accept")
        /\ InOutbox(bcasts[k].sender, k)
        /\ Cardinality(bcasts[k].members) > 1

\* C11: each group_send puts its event exactly once to every channel that is
\* registered in the group at the time of the call -- no member is skipped,
\* no other channel is reached, no member holds or relays the event of one
\* broadcast twice, and chat_message runs once for each event taken from a
\* channel.
C11_Occ(seq, k) == Cardinality({i \in 1..Len(seq) : seq[i].bid = k})

C11_ExactlyOncePerMember ==
    /\ \A k \in BcastIds : bcasts[k].recipients = bcasts[k].members
    /\ \A k \in BcastIds : \A c \in Conns :
         C11_Occ(mailbox[c], k) + C11_Occ(outbox[c], k)
             <= (IF c \in bcasts[k].members THEN 1 ELSE 0)
    /\ \A c \in Conns :
         Cardinality({i \in 1..Len(calls[c]) : calls[c][i].op = "chat_message"})
           = Cardinality({k \in BcastIds :
                            c \in bcasts[k].members /\ ~ InMailbox(c, k)})

\* a broadcast to a group of two: one member relayed it, the other holds it
C11_Witness ==
    \E k \in BcastIds : \E c, d \in bcasts[k].members :
        /\ c # d
        /\ C11_Occ(outbox[c], k) = 1
        /\ C11_Occ(mailbox[d], k) = 1

\* C12: per-sender order -- the broadcasts of one sender are issued in the
\* order its receive ran, and every recipient relays (and holds) the events
\* of one sender in that order.
C12_SameSenderInOrder(seq) ==
    \A i, j \in 1..Len(seq) :
        (i < j /\ bcasts[seq[i].bid].sender = bcasts[seq[j].bid].sender)
            => seq[i].bid < seq[j].bid

C12_PerSenderOrder ==
    /\ \A c \in Conns :
         /\ C12_SameSenderInOrder(outbox[c])
         /\ C12_SameSenderInOrder(mailbox[c])
         /\ \A i \in 1..Len(outbox[c]) : \A j \in 1..Len(mailbox[c]) :
              bcasts[outbox[c][i].bid].sender = bcasts[mailbox[c][j].bid].sender
                  => outbox[c][i].bid < mailbox[c][j].bid
    /\ \A c \in Conns : \A k1, k2 \in BcastIds :
         (/\ k1 < k2
          /\ bcasts[k1].sender = bcasts[k2].sender
          /\ c \in bcasts[k1].members \cap bcasts[k2].members
          /\ InOutbox(c, k2)) => InOutbox(c, k1)
    /\ \A c \in Conns :
         Cardinality({k \in BcastIds : bcasts[k].sender = c})
           = Cardinality({i \in 1..Len(calls[c]) : calls[c][i] = Call("group_send", TRUE)})

\* a member other than the sender relayed two messages of that sender
C12_Witness ==
    \E c \in Conns : \E i, j \in 1..Len(outbox[c]) :
        /\ i < j
        /\ bcasts[outbox[c][i].bid].sender = bcasts[outbox[c][j].bid].sender
        /\ bcasts[outbox[c][i].bid].sender # c
        /\ bcasts[outbox[c][i].bid].text # bcasts[outbox[c][j].bid].text

C15_Terminal == {"Closed", "Crashed"}

C15_Moves(c) ==
    /\ st[c] \in C15_Terminal => st'[c] = st[c]
    /\ st'[c] = "Unjoined" => st[c] = "Unjoined"
    /\ (st'[c] = "Joined" /\ st[c] # "Joined") => st[c] = "Unjoined"
    /\ (st'[c] = "Closed" /\ st[c] # "Closed") => st[c] = "Joined"

C15_Acts(c) ==
    \/ outbox'[c] # outbox[c]
    \/ Len(bcasts') > Len(bcasts) /\ bcasts'[Len(bcasts')].sender = c
    \/ /\ Len(calls'[c]) > Len(calls[c])
       /\ calls'[c][Len(calls[c]) + 1].op \in {"receive", "chat_message"}

C15_SessionLifecycle ==
    [][\A c \in Conns : C15_Moves(c) /\ (C15_Acts(c) => st[c] = "Joined")]_vars

\* a session that went through the whole life cycle: it broadcast, relayed
\* and is Closed
C15_Witness ==
    \E c \in Conns :
        /\ st[c] = "Closed"
        /\ Has(c, Call("group_send", TRUE))
        /\ outbox[c] # << >>

\* C16: ChatConsumer and AsyncChatConsumer implement the same contract -- in
\* every state and for every input, a handler of one class makes exactly the
\* step the same handler of the other class makes: the same group_add /
\* group_discard / group_send calls, the same registry, the same queued
\* events and the same outbound payloads, in the same order.
C16_SameStep(c) ==
    /\ (\E scope \in Scopes : ConnectJoin(c, scope) \/ ConnectRefused(c, scope))
         <=> (\E scope \in Scopes :
                 Async_ConnectJoin(c, scope) \/ Async_ConnectRefused(c, scope))
    /\ (\E text_data \in Frames : ReceiveSend(c, text_data) \/ ReceiveRaise(c, text_data))
         <=> (\E text_data \in Frames :
                 Async_ReceiveSend(c, text_data) \/ Async_ReceiveRaise(c, text_data))
    /\ (Deliver(c) \/ DeliverDropped(c) \/ DeliverRaise(c))
         <=> (Async_Deliver(c) \/ Async_DeliverDropped(c) \/ Async_DeliverRaise(c))
    /\ (Disconnect(c) \/ DisconnectRaise(c))
         <=> (Async_Disconnect(c) \/ Async_DisconnectRaise(c))

C16_SyncAsyncEquivalent == [][\A c \in Conns : C16_SameStep(c)]_vars

\* a session for which connect, receive, chat_message and disconnect all ran,
\* with another member that relayed its message
C16_Witness ==
    \E c, d \in Conns :
        /\ c # d
        /\ Has(c, Call("accept", TRUE))
        /\ Has(c, Call("send", TRUE))
        /\ Has(c, Call("group_discard", TRUE))
        /\ \E k \in BcastIds : bcasts[k].sender = c /\ InOutbox(d, k)

\* C17: in every reachable state a connection is a member of at most one
\* group, and that group is the one named "chat_" + the room name the
\* connection connected with.
C17_GroupsOf(c) == {p \in groups : p[2] = c}

C17_OneGroupPerConnection ==
    /\ \A p \in groups : p[2] \in Conns
    /\ \A c \in Conns :
         /\ Cardinality(C17_GroupsOf(c)) <= 1
         /\ \A p \in C17_GroupsOf(c) :
              /\ room_name[c] \in RoomIds
              /\ p[1] = ChatPrefix \o room_name[c]
              /\ Has(c, Call("group_add", TRUE))

\* two connections registered at the same time, in the groups of two rooms
C17_Witness ==
    \E c, d \in Conns :
        /\ room_name[c] = RoomLobby /\ room_name[d] = RoomDen
        /\ C17_GroupsOf(c) = {<<ChatPrefix \o RoomLobby, c>>}
        /\ C17_GroupsOf(d) = {<<ChatPrefix \o RoomDen, d>>}

\* C18: no spurious or altered messages -- every payload a session sent to
\* its client parses to an object with the single field "message", whose
\* value is the value of the "message" field of a frame received earlier by
\* a session that was then registered in the same group as the relaying
\* session; and a session relays no more payloads than broadcasts reached it.
C18_FromInbound(c, sent) ==
    \E k \in BcastIds :
        /\ k = sent.bid
        /\ bcasts[k].group = room_group_name[c]
        /\ {bcasts[k].sender, c} \subseteq bcasts[k].members
        /\ LET out == json_loads(sent.text)
               inn == json_loads(bcasts[k].text)
           IN  /\ out.err = "None" /\ inn.err = "None"
               /\ out.val.py = "dict"
               /\ Len(out.val.items) = 1
               /\ out.val.items[1][1] = "message"
               /\ Subscript(inn.val, "message") = Result("None", out.val.items[1][2])

C18_NoSpuriousOrAltered ==
    \A c \in Conns :
        /\ \A i \in 1..Len(outbox[c]) : C18_FromInbound(c, outbox[c][i])
        /\ Len(outbox[c]) <= Cardinality({k \in BcastIds : c \in bcasts[k].members})

\* one session relayed a text message and a number message sent by another
C18_Witness ==
    \E c \in Conns : \E i, j \in 1..Len(outbox[c]) :
        /\ bcasts[outbox[c][i].bid].text = TxtHi
        /\ bcasts[outbox[c][j].bid].text = TxtNum
        /\ bcasts[outbox[c][i].bid].sender # c

\* C19: receive and chat_message leave group membership unchanged -- a step
\* in which either handler runs keeps the registry as it is; a step that adds
\* a pair to the registry is a connect of that channel and a step that
\* removes one is a disconnect of that channel.
C19_Runs(c, ops) ==
    /\ Len(calls'[c]) > Len(calls[c])
    /\ calls'[c][Len(calls[c]) + 1].op \in ops

C19_MembershipFrame ==
    [][/\ \A c \in Conns :
            C19_Runs(c, {"receive", "chat_message"}) => groups' = groups
       /\ \A p \in groups' \ groups : C19_Runs(p[2], {"connect"})
       /\ \A p \in groups \ groups' : C19_Runs(p[2], {"disconnect"})]_vars

\* c broadcast and relayed a message and is still registered, after another
\* member of its group had joined and left
C19_Witness ==
    \E c, d \in Conns :
        /\ c # d
        /\ <<room_group_name[c], c>> \in groups
        /\ room_group_name[d] = room_group_name[c]
        /\ Has(d, Call("group_discard", TRUE))
        /\ Has(c, Call("group_send", TRUE))
        /\ Has(c, Call("send", TRUE))

====
